---- MODULE Spec2Model ----
(***************************************************************************)
(* Model of the document-analysis backend: the /analyze handler with its   *)
(* JSON-fixing block (src/app.py), the /ask handler, and the template      *)
(* builder (src/template_builder.py) with the built-in templates           *)
(* (src/templates.py).                                                     *)
(*                                                                         *)
(* Text is modelled character by character: a Python str is a sequence of  *)
(* one-character strings.  json.loads, json.dumps and the three re.sub     *)
(* calls are operators over such sequences, so that "the repaired text     *)
(* parses" and "the value is unchanged" are facts the checker can refute.  *)
(*                                                                         *)
(* Alphabet of the modelled text: the JSON punctuation { } [ ] : , " , the *)
(* whitespace characters space and newline, the digits, the ASCII letters  *)
(* and underscore.  Backslash escapes, signs, fractions and exponents do   *)
(* not occur in the modelled replies.                                      *)
(***************************************************************************)
EXTENDS Integers, Sequences, FiniteSets, TLC

\* ------------------------------------------------------------------------
\* Characters
\* ------------------------------------------------------------------------
QUOTE == "\""
NL == "\n"
SP == " "

Digits == {"0", "1", "2", "3", "4", "5", "6", "7", "8", "9"}

Letters ==
    {"a", "b", "c", "d", "e", "f", "g", "h", "i", "j", "k", "l", "m",
     "n", "o", "p", "q", "r", "s", "t", "u", "v", "w", "x", "y", "z",
     "A", "B", "C", "D", "E", "F", "G", "H", "I", "J", "K", "L", "M",
     "N", "O", "P", "Q", "R", "S", "T", "U", "V", "W", "X", "Y", "Z"}

\* \w of the re module
WordChars == Letters \cup Digits \cup {"_"}

\* whitespace: \s of the re module and the WHITESPACE of the json decoder
WS == {SP, NL}

\* characters below 0x20, which the strict json decoder rejects in a string
ControlChars == {NL}

\* ------------------------------------------------------------------------
\* JSON values: tagged records [k |-> kind, v |-> payload]
\*   null  v = 0            bool  v \in BOOLEAN      num  v \in Nat
\*   str   v = characters   arr   v = values         obj  v = <<[key, val]>>
\*   const v = characters
\* (an obj keeps the insertion order of a Python dict)
\* ------------------------------------------------------------------------
JNull == [k |-> "null", v |-> 0]
JBool(b) == [k |-> "bool", v |-> b]
JNum(n) == [k |-> "num", v |-> n]
JStr(cs) == [k |-> "str", v |-> cs]
JArr(vs) == [k |-> "arr", v |-> vs]
JObj(ms) == [k |-> "obj", v |-> ms]
\* the float constants NaN and Infinity, which the Python decoder accepts
JConst(cs) == [k |-> "const", v |-> cs]

\* dict[key] = val: a repeated key keeps its first position, takes the new value
DictSet(ms, key, val) ==
    IF \E i \in 1..Len(ms) : ms[i].key = key
    THEN [i \in 1..Len(ms) |-> IF ms[i].key = key THEN [key |-> key, val |-> val] ELSE ms[i]]
    ELSE Append(ms, [key |-> key, val |-> val])

DictHas(ms, key) == \E i \in 1..Len(ms) : ms[i].key = key

DictGet(ms, key) == ms[CHOOSE i \in 1..Len(ms) : ms[i].key = key].val

\* ------------------------------------------------------------------------
\* json.loads
\* ------------------------------------------------------------------------
ScanFail == [ok |-> FALSE, val |-> JNull, end |-> 0]
ScanOk(v, e) == [ok |-> TRUE, val |-> v, end |-> e]

\* first index >= i that holds no whitespace (Len(s) + 1 when there is none)
RECURSIVE SkipWs(_, _)
SkipWs(s, i) == IF i <= Len(s) /\ s[i] \in WS THEN SkipWs(s, i + 1) ELSE i

\* first index >= i that holds no digit
RECURSIVE SkipDigits(_, _)
SkipDigits(s, i) == IF i <= Len(s) /\ s[i] \in Digits THEN SkipDigits(s, i + 1) ELSE i

\* index of the first QUOTE at or after i, 0 when there is none
FindQuote(s, i) ==
    LET at == {j \in i..Len(s) : s[j] = QUOTE} IN
    IF at = {} THEN 0 ELSE CHOOSE x \in at : \A y \in at : x <= y

\* s[i..i+Len(w)-1] = w
StartsWith(s, i, w) ==
    /\ i + Len(w) - 1 <= Len(s)
    /\ \A j \in 1..Len(w) : s[i + j - 1] = w[j]

DigitVal(c) ==
    CASE c = "0" -> 0 [] c = "1" -> 1 [] c = "2" -> 2 [] c = "3" -> 3 [] c = "4" -> 4
      [] c = "5" -> 5 [] c = "6" -> 6 [] c = "7" -> 7 [] c = "8" -> 8 [] c = "9" -> 9

DigitChar(n) ==
    CASE n = 0 -> "0" [] n = 1 -> "1" [] n = 2 -> "2" [] n = 3 -> "3" [] n = 4 -> "4"
      [] n = 5 -> "5" [] n = 6 -> "6" [] n = 7 -> "7" [] n = 8 -> "8" [] n = 9 -> "9"

\* int(digits)
RECURSIVE IntOf(_)
IntOf(ds) ==
    IF ds = <<>> THEN 0 ELSE 10 * IntOf(SubSeq(ds, 1, Len(ds) - 1)) + DigitVal(ds[Len(ds)])

\* str(n)
RECURSIVE StrOfInt(_)
StrOfInt(n) == IF n < 10 THEN <<DigitChar(n)>> ELSE StrOfInt(n \div 10) \o <<DigitChar(n % 10)>>

\* a string literal whose opening quote is at i
scanstring(s, i) ==
    LET j == FindQuote(s, i + 1) IN
    IF j = 0 THEN ScanFail
    ELSE IF \E m \in (i + 1)..(j - 1) : s[m] \in ControlChars THEN ScanFail
    ELSE ScanOk(JStr(SubSeq(s, i + 1, j - 1)), j + 1)

\* NUMBER_RE: 0 or a digit run that does not start with 0
scannumber(s, i) ==
    IF s[i] = "0" THEN ScanOk(JNum(0), i + 1)
    ELSE LET e == SkipDigits(s, i) IN ScanOk(JNum(IntOf(SubSeq(s, i, e - 1))), e)

RECURSIVE scan_once(_, _), JSONObject(_, _, _), JSONArray(_, _, _)

scan_once(s, i) ==
    IF i > Len(s) THEN ScanFail
    ELSE IF s[i] = QUOTE THEN scanstring(s, i)
    ELSE IF s[i] = "{" THEN
        LET n == SkipWs(s, i + 1) IN
        IF n <= Len(s) /\ s[n] = "}" THEN ScanOk(JObj(<<>>), n + 1)
        ELSE JSONObject(s, n, <<>>)
    ELSE IF s[i] = "[" THEN
        LET n == SkipWs(s, i + 1) IN
        IF n <= Len(s) /\ s[n] = "]" THEN ScanOk(JArr(<<>>), n + 1)
        ELSE JSONArray(s, n, <<>>)
    ELSE IF StartsWith(s, i, <<"n", "u", "l", "l">>) THEN ScanOk(JNull, i + 4)
    ELSE IF StartsWith(s, i, <<"t", "r", "u", "e">>) THEN ScanOk(JBool(TRUE), i + 4)
    ELSE IF StartsWith(s, i, <<"f", "a", "l", "s", "e">>) THEN ScanOk(JBool(FALSE), i + 5)
    ELSE IF s[i] \in Digits THEN scannumber(s, i)
    ELSE IF StartsWith(s, i, <<"N", "a", "N">>) THEN ScanOk(JConst(<<"N", "a", "N">>), i + 3)
    ELSE IF StartsWith(s, i, <<"I", "n", "f", "i", "n", "i", "t", "y">>)
        THEN ScanOk(JConst(<<"I", "n", "f", "i", "n", "i", "t", "y">>), i + 8)
    ELSE ScanFail

\* the members of an object from the opening quote of a key at i
JSONObject(s, i, acc) ==
    IF i > Len(s) \/ s[i] # QUOTE THEN ScanFail
    ELSE LET key == scanstring(s, i) IN
    IF ~key.ok THEN ScanFail
    ELSE LET c == SkipWs(s, key.end) IN
    IF c > Len(s) \/ s[c] # ":" THEN ScanFail
    ELSE LET val == scan_once(s, SkipWs(s, c + 1)) IN
    IF ~val.ok THEN ScanFail
    ELSE LET n == SkipWs(s, val.end)
             acc2 == DictSet(acc, key.val.v, val.val) IN
    IF n > Len(s) THEN ScanFail
    ELSE IF s[n] = "}" THEN ScanOk(JObj(acc2), n + 1)
    ELSE IF s[n] = "," THEN JSONObject(s, SkipWs(s, n + 1), acc2)
    ELSE ScanFail

\* the elements of an array from the first character of an element at i
JSONArray(s, i, acc) ==
    LET val == scan_once(s, i) IN
    IF ~val.ok THEN ScanFail
    ELSE LET n == SkipWs(s, val.end)
             acc2 == Append(acc, val.val) IN
    IF n > Len(s) THEN ScanFail
    ELSE IF s[n] = "]" THEN ScanOk(JArr(acc2), n + 1)
    ELSE IF s[n] = "," THEN JSONArray(s, SkipWs(s, n + 1), acc2)
    ELSE ScanFail

\* json.loads(s): [ok |-> FALSE] stands for JSONDecodeError
json_loads(s) ==
    LET r == scan_once(s, SkipWs(s, 1)) IN
    IF r.ok /\ SkipWs(s, r.end) > Len(s) THEN [ok |-> TRUE, val |-> r.val]
    ELSE [ok |-> FALSE, val |-> JNull]

\* ------------------------------------------------------------------------
\* json.dumps (default separators ', ' and ': ')
\* ------------------------------------------------------------------------
RECURSIVE json_dumps(_), DumpItems(_, _), DumpMembers(_, _)

json_dumps(x) ==
    CASE x.k = "null" -> <<"n", "u", "l", "l">>
      [] x.k = "bool" -> IF x.v THEN <<"t", "r", "u", "e">> ELSE <<"f", "a", "l", "s", "e">>
      [] x.k = "num" -> StrOfInt(x.v)
      [] x.k = "const" -> x.v
      [] x.k = "str" -> <<QUOTE>> \o x.v \o <<QUOTE>>
      [] x.k = "arr" -> <<"[">> \o DumpItems(x.v, 1) \o <<"]">>
      [] x.k = "obj" -> <<"{">> \o DumpMembers(x.v, 1) \o <<"}">>

DumpItems(vs, i) ==
    IF i > Len(vs) THEN <<>>
    ELSE (IF i > 1 THEN <<",", SP>> ELSE <<>>) \o json_dumps(vs[i]) \o DumpItems(vs, i + 1)

DumpMembers(ms, i) ==
    IF i > Len(ms) THEN <<>>
    ELSE (IF i > 1 THEN <<",", SP>> ELSE <<>>)
         \o <<QUOTE>> \o ms[i].key \o <<QUOTE, ":", SP>> \o json_dumps(ms[i].val)
         \o DumpMembers(ms, i + 1)

\* ------------------------------------------------------------------------
\* json.dump(x, f, indent=4): the text written to the file
\* ------------------------------------------------------------------------
RECURSIVE json_dump_indent(_, _), IndentItems(_, _, _), IndentMembers(_, _, _)

\* a newline and the indentation of nesting level n
NewlineIndent(n) == <<NL>> \o [i \in 1..(4 * n) |-> SP]

json_dump_indent(x, n) ==
    CASE x.k = "arr" ->
            IF x.v = <<>> THEN <<"[", "]">>
            ELSE <<"[">> \o IndentItems(x.v, 1, n + 1) \o NewlineIndent(n) \o <<"]">>
      [] x.k = "obj" ->
            IF x.v = <<>> THEN <<"{", "}">>
            ELSE <<"{">> \o IndentMembers(x.v, 1, n + 1) \o NewlineIndent(n) \o <<"}">>
      [] OTHER -> json_dumps(x)

IndentItems(vs, i, n) ==
    IF i > Len(vs) THEN <<>>
    ELSE (IF i > 1 THEN <<",">> ELSE <<>>) \o NewlineIndent(n)
         \o json_dump_indent(vs[i], n) \o IndentItems(vs, i + 1, n)

IndentMembers(ms, i, n) ==
    IF i > Len(ms) THEN <<>>
    ELSE (IF i > 1 THEN <<",">> ELSE <<>>) \o NewlineIndent(n)
         \o <<QUOTE>> \o ms[i].key \o <<QUOTE, ":", SP>> \o json_dump_indent(ms[i].val, n)
         \o IndentMembers(ms, i + 1, n)

\* ------------------------------------------------------------------------
\* The regular expressions of the JSON-fixing block
\* ------------------------------------------------------------------------

\* re.search(r'\{.*\}', s, re.DOTALL): from the first '{' to the last '}'
Min(S) == CHOOSE x \in S : \A y \in S : x <= y
Max(S) == CHOOSE x \in S : \A y \in S : x >= y

\* index of the first c at or after i, 0 when there is none
FirstIndex(s, c, i) ==
    LET at == {j \in i..Len(s) : s[j] = c} IN IF at = {} THEN 0 ELSE Min(at)

\* index of the last c at or before i, 0 when there is none
LastIndex(s, c, i) ==
    LET at == {j \in 1..i : s[j] = c} IN IF at = {} THEN 0 ELSE Max(at)

\* a search that stops at the first '}' (the non-greedy pattern \{.*?\})
re_search_braces_nongreedy(s) ==
    LET a == FirstIndex(s, "{", 1)
        b == IF a = 0 THEN 0 ELSE FirstIndex(s, "}", a) IN
    IF a # 0 /\ b > a THEN [found |-> TRUE, group |-> SubSeq(s, a, b)]
    ELSE [found |-> FALSE, group |-> <<>>]

re_search_braces(s) ==
    LET a == FirstIndex(s, "{", 1)
        b == LastIndex(s, "}", Len(s)) IN
    IF a # 0 /\ b > a THEN [found |-> TRUE, group |-> SubSeq(s, a, b)]
    ELSE [found |-> FALSE, group |-> <<>>]

\* \b at the gap before index i
WordBoundary(s, i) ==
    LET before == i > 1 /\ i - 1 <= Len(s) /\ s[i - 1] \in WordChars
        after == i >= 1 /\ i <= Len(s) /\ s[i] \in WordChars IN
    before # after

\* \btrue\b, \bfalse\b or \bnull\b at i: the index after it, 0 when none
KeywordEnd(s, i) ==
    LET kw(w) == StartsWith(s, i, w) /\ WordBoundary(s, i) /\ WordBoundary(s, i + Len(w)) IN
    IF kw(<<"t", "r", "u", "e">>) THEN i + 4
    ELSE IF kw(<<"f", "a", "l", "s", "e">>) THEN i + 5
    ELSE IF kw(<<"n", "u", "l", "l">>) THEN i + 4
    ELSE 0

\* "[^"]*" at i: the index after the closing quote, 0 when none
QuotedEnd(s, i) ==
    IF i <= Len(s) /\ s[i] = QUOTE
    THEN LET j == FindQuote(s, i + 1) IN IF j = 0 THEN 0 ELSE j + 1
    ELSE 0

\* \d+ at i: the index after the digit run, 0 when none
DigitRunEnd(s, i) == IF i <= Len(s) /\ s[i] \in Digits THEN SkipDigits(s, i) ELSE 0

\* group 1 of the pattern of line 376: (\d+|\btrue\b|\bfalse\b|\bnull\b|"[^"]*")
InlineGroupEnd(s, i) ==
    IF s[i] \in Digits THEN DigitRunEnd(s, i)
    ELSE IF s[i] \in {"t", "f", "n"} THEN KeywordEnd(s, i)
    ELSE QuotedEnd(s, i)

\* the lookahead of line 376: (?=["{\[]|[a-zA-Z])
InlineLookaheadChars == {QUOTE, "{", "["} \cup Letters

InlineLookahead(s, i) == i <= Len(s) /\ s[i] \in InlineLookaheadChars

\* the match of the pattern of line 376 at i: [g |-> end of group 1, e |-> end of match],
\* g = 0 when the pattern does not match at i
InlineMatch(s, i) ==
    LET g == InlineGroupEnd(s, i)
        e == SkipWs(s, g) IN
    IF g # 0 /\ e > g /\ InlineLookahead(s, e) THEN [g |-> g, e |-> e] ELSE [g |-> 0, e |-> 0]

\* re.sub scans from i: the text up to the leftmost match at or after i is copied,
\* the match is replaced by group 1 and a comma, and the scan goes on after the match
\* (starts: the indices at which the pattern matches)
RECURSIVE SubInlineFrom(_, _, _)
SubInlineFrom(s, i, starts) ==
    LET later == {j \in starts : j >= i} IN
    IF later = {} THEN SubSeq(s, i, Len(s))
    ELSE LET m == InlineMatch(s, Min(later)) IN
         SubSeq(s, i, m.g - 1) \o <<",">> \o SubInlineFrom(s, m.e, starts)

\* re.sub(r'(\d+|\btrue\b|\bfalse\b|\bnull\b|"[^"]*")\s+(?=["{\[]|[a-zA-Z])', r'\1,', s)
sub_inline_commas(s) == SubInlineFrom(s, 1, {j \in 1..Len(s) : InlineMatch(s, j).g # 0})

\* group 1 of the pattern of line 377: (\}|\]|\d+|"[^"]*")
NewlineGroupEnd(s, i) ==
    IF s[i] \in {"}", "]"} THEN i + 1
    ELSE IF s[i] \in Digits THEN DigitRunEnd(s, i)
    ELSE QuotedEnd(s, i)

\* the match of the pattern of line 377 at i: group 1, a whitespace run that holds a
\* newline, and a quote, which the match consumes
NewlineMatch(s, i) ==
    LET g == NewlineGroupEnd(s, i)
        e == SkipWs(s, g) IN
    IF /\ g # 0
       /\ \E m \in g..(e - 1) : s[m] = NL
       /\ e <= Len(s) /\ s[e] = QUOTE
    THEN [g |-> g, e |-> e + 1] ELSE [g |-> 0, e |-> 0]

\* the scan of re.sub from i, the match replaced by group 1, a comma, a newline and
\* a quote
RECURSIVE SubNewlineFrom(_, _, _)
SubNewlineFrom(s, i, starts) ==
    LET later == {j \in starts : j >= i} IN
    IF later = {} THEN SubSeq(s, i, Len(s))
    ELSE LET m == NewlineMatch(s, Min(later)) IN
         SubSeq(s, i, m.g - 1) \o <<",", NL, QUOTE>> \o SubNewlineFrom(s, m.e, starts)

\* re.sub(r'(\}|\]|\d+|"[^"]*")\s*\n\s*"', r'\1,\n"', s)
sub_newline_commas(s) == SubNewlineFrom(s, 1, {j \in 1..Len(s) : NewlineMatch(s, j).g # 0})

\* the match of the pattern of line 378 at i: the index after the bracket, 0 when none
TrailingMatch(s, i) ==
    LET e == SkipWs(s, i + 1) IN
    IF s[i] = "," /\ e <= Len(s) /\ s[e] \in {"]", "}"} THEN e + 1 ELSE 0

\* the scan of re.sub from i, the match replaced by its text after the comma
RECURSIVE SubTrailingFrom(_, _, _)
SubTrailingFrom(s, i, starts) ==
    LET later == {j \in starts : j >= i} IN
    IF later = {} THEN SubSeq(s, i, Len(s))
    ELSE LET j == Min(later)
             e == TrailingMatch(s, j) IN
         SubSeq(s, i, j - 1) \o SubSeq(s, j + 1, e - 1) \o SubTrailingFrom(s, e, starts)

\* re.sub(r',(\s*[\]}])', r'\1', s)
sub_trailing_commas(s) == SubTrailingFrom(s, 1, {j \in 1..Len(s) : TrailingMatch(s, j) # 0})


\* ------------------------------------------------------------------------
\* The JSON-fixing block of analyze_document (src/app.py, lines 359-393)
\* ------------------------------------------------------------------------

\* a fast path that is taken for objects only
direct_parse_objects_only(response_text) ==
    json_loads(response_text).ok /\ json_loads(response_text).val.k = "obj"

\* lines 362-364: json.loads(response_text) did not raise
direct_parse_ok(response_text) == json_loads(response_text).ok

\* lines 376-378: the three substitutions, in the order of the code
clean_extracted(json_str) ==
    sub_trailing_commas(sub_newline_commas(sub_inline_commas(json_str)))

\* the block without its final validation
validate_cleaned_skipped(json_str) == TRUE

\* line 381: json.loads(json_str) did not raise
validate_cleaned(json_str) == json_loads(json_str).ok

\* The block as a function of the reply.  outcome: "ok" (line 386 is reached),
\* "no_match" (line 371), "invalid" (line 381 raised, line 393).  isolated: match.group(0)
\* of line 373.  steps: the calls that were applied to the text, in order.
fix_json(response_text) ==
    IF direct_parse_ok(response_text)
    THEN [outcome |-> "ok",
          json_str |-> json_dumps(json_loads(response_text).val),
          isolated |-> <<>>,
          steps |-> <<"loads", "dumps">>]
    ELSE LET match == re_search_braces(response_text) IN
         IF ~match.found
         THEN [outcome |-> "no_match", json_str |-> <<>>, isolated |-> <<>>,
               steps |-> <<"loads", "search">>]
         ELSE LET cleaned == clean_extracted(match.group) IN
              [outcome |-> IF validate_cleaned(cleaned) THEN "ok" ELSE "invalid",
               json_str |-> cleaned,
               isolated |-> match.group,
               steps |-> <<"loads", "search", "sub", "sub", "sub", "loads">>]

\* ------------------------------------------------------------------------
\* Inputs: uploads and LLM replies
\* ------------------------------------------------------------------------

\* bounds of the input space
MaxMembers == 2
MaxLen == 4

\* extracted document texts (after strip); "" is a file without text
Texts == {"T1", "T2"}

\* str(hash(text)), line 338
Hash(text) == CASE text = "T1" -> "h1" [] text = "T2" -> "h2" [] OTHER -> "h0"

\* file names of an upload; <<>> is the empty file name of line 313
S_a_pdf == <<"a", ".", "p", "d", "f">>
S_b_TXT == <<"b", ".", "T", "X", "T">>
S_c_exe == <<"c", ".", "e", "x", "e">>
S_notes == <<"n", "o", "t", "e", "s">>

Filenames == {<<>>, S_a_pdf, S_b_TXT, S_c_exe, S_notes}

\* values the model lets the LLM mean to send: scalars and small containers
LeafValues ==
    {JNum(1), JBool(TRUE), JNull,
     JStr(<<"x">>), JStr(<<SP, "x">>), JStr(<<"1", SP, "y">>), JStr(<<"x", ",", "}">>),
     JArr(<<JNum(1), JNum(2), JNum(3)>>)}

\* the key of the i-th member of a generated object
KeyAt(i) == <<<<"a">>, <<"b">>, <<"c">>, <<"d">>>>[i]

\* the objects and the array of the worked examples: {"a": 1, "b": 2}, {"a": [1, 2, 3]}
ExampleValues ==
    {JObj(<<[key |-> <<"a">>, val |-> JNum(1)], [key |-> <<"b">>, val |-> JNum(2)]>>),
     JObj(<<[key |-> <<"a">>, val |-> JArr(<<JNum(1), JNum(2), JNum(3)>>)]>>)}

SeqsUpTo(S, n) == UNION {[1..m -> S] : m \in 0..n}

ArrayValues == {JArr(vs) : vs \in SeqsUpTo(LeafValues, MaxMembers)}

ObjectValues ==
    {JObj([i \in 1..Len(vs) |-> [key |-> KeyAt(i), val |-> vs[i]]]) :
        vs \in SeqsUpTo(LeafValues, MaxMembers)}

\* an object whose key holds a digit, a space and a letter
HostileKeyValues ==
    {JObj(<<[key |-> <<"k", SP, "1", SP, "x">>, val |-> JNum(1)]>>),
     JObj(<<[key |-> <<"k", SP, "1", SP, "x">>, val |-> JNum(1)],
            [key |-> <<"b">>, val |-> JNum(2)]>>)}

IntendedValues ==
    LeafValues \cup ArrayValues \cup ObjectValues \cup HostileKeyValues \cup ExampleValues

\* how the LLM writes a container: the separator between its elements, and the
\* text between the last element and the closing bracket
Separators == {<<",", SP>>, <<",", NL>>, <<SP>>, <<NL>>}
Trailers == {<<>>, <<",">>}
\* prose before and after the JSON text
Proses == {[pre |-> <<>>, suf |-> <<>>], [pre |-> <<"H", "e", "r", "e", ":", SP>>, suf |-> <<SP, "o", "k">>]}

RECURSIVE Render(_, _, _), RenderItems(_, _, _, _), RenderMembers(_, _, _, _)

\* the text of value x written with separator sep and trailer tr
Render(x, sep, tr) ==
    CASE x.k = "arr" ->
            <<"[">> \o RenderItems(x.v, 1, sep, tr) \o (IF x.v = <<>> THEN <<>> ELSE tr) \o <<"]">>
      [] x.k = "obj" ->
            <<"{">> \o RenderMembers(x.v, 1, sep, tr) \o (IF x.v = <<>> THEN <<>> ELSE tr) \o <<"}">>
      [] OTHER -> json_dumps(x)

RenderItems(vs, i, sep, tr) ==
    IF i > Len(vs) THEN <<>>
    ELSE (IF i > 1 THEN sep ELSE <<>>) \o Render(vs[i], sep, tr) \o RenderItems(vs, i + 1, sep, tr)

RenderMembers(ms, i, sep, tr) ==
    IF i > Len(ms) THEN <<>>
    ELSE (IF i > 1 THEN sep ELSE <<>>)
         \o <<QUOTE>> \o ms[i].key \o <<QUOTE, ":", SP>> \o Render(ms[i].val, sep, tr)
         \o RenderMembers(ms, i + 1, sep, tr)

\* a written reply: what the LLM meant and how it wrote it
WrittenReplies ==
    [src : {"written"}, val : IntendedValues, sep : Separators, tr : Trailers,
     prose : Proses, raw : {<<>>}]

\* arbitrary short text
RawAlphabet == {"{", "}", QUOTE, ",", SP, "1", "a"}

S_no_json_here == <<"n", "o", SP, "j", "s", "o", "n", SP, "h", "e", "r", "e">>
S_close_open == <<"}", SP, "1", SP, "{">>
S_brace_prose == <<"{", "x", "}", SP, "{", QUOTE, "a", QUOTE, ":", SP, "1", ",", "}">>

RawTexts == SeqsUpTo(RawAlphabet, MaxLen) \cup {S_no_json_here, S_close_open, S_brace_prose}

RawReplies ==
    [src : {"raw"}, val : {JNull}, sep : {<<>>}, tr : {<<>>},
     prose : {[pre |-> <<>>, suf |-> <<>>]}, raw : RawTexts]

\* message.content[0].text for a reply (line 356)
TextOf(reply) ==
    IF reply.src = "raw" THEN reply.raw
    ELSE reply.prose.pre \o Render(reply.val, reply.sep, reply.tr) \o reply.prose.suf

AnalysisReplies == WrittenReplies \cup RawReplies

NoReply == [src |-> "none", val |-> JNull, sep |-> <<>>, tr |-> <<>>,
            prose |-> [pre |-> <<>>, suf |-> <<>>], raw |-> <<>>]


\* ------------------------------------------------------------------------
\* Uploads (src/app.py, lines 306-335)
\* ------------------------------------------------------------------------
UpperCase == <<"A", "B", "C", "D", "E", "F", "G", "H", "I", "J", "K", "L", "M", "N", "O", "P", "Q", "R", "S", "T", "U", "V", "W", "X", "Y", "Z">>
LowerCase == <<"a", "b", "c", "d", "e", "f", "g", "h", "i", "j", "k", "l", "m", "n", "o", "p", "q", "r", "s", "t", "u", "v", "w", "x", "y", "z">>

\* str.lower()
lower(s) ==
    [i \in 1..Len(s) |->
        IF \E j \in 1..26 : UpperCase[j] = s[i]
        THEN LowerCase[CHOOSE j \in 1..26 : UpperCase[j] = s[i]]
        ELSE s[i]]

\* os.path.splitext(name)[1]: from the last dot, unless only dots precede it
splitext(name) ==
    LET d == LastIndex(name, ".", Len(name)) IN
    IF d = 0 \/ (\A j \in 1..(d - 1) : name[j] = ".") THEN <<>> ELSE SubSeq(name, d, Len(name))

\* the keys of DOCUMENT_HANDLERS, lines 114-119
DOCUMENT_HANDLERS == {<<".", "p", "d", "f">>, <<".", "t", "x", "t">>, <<".", "c", "s", "v">>, <<".", "d", "o", "c", "x">>}

\* what DOCUMENT_HANDLERS[file_ext](file_content) does: it raises, or returns a text
ExtractOutcomes ==
    {[raised |-> TRUE, text |-> ""]} \cup {[raised |-> FALSE, text |-> t] : t \in Texts \cup {""}}

Uploads == [has_file : BOOLEAN, filename : Filenames, extract : ExtractOutcomes]

\* ------------------------------------------------------------------------
\* Templates (src/templates.py, src/template_builder.py)
\* ------------------------------------------------------------------------
K_name == <<"n", "a", "m", "e">>
K_description == <<"d", "e", "s", "c", "r", "i", "p", "t", "i", "o", "n">>
K_prompt_template == <<"p", "r", "o", "m", "p", "t", "_", "t", "e", "m", "p", "l", "a", "t", "e">>
K_visualization == <<"v", "i", "s", "u", "a", "l", "i", "z", "a", "t", "i", "o", "n">>
K_type == <<"t", "y", "p", "e">>
K_fields == <<"f", "i", "e", "l", "d", "s">>
K_field == <<"f", "i", "e", "l", "d">>

\* The built-in templates.  prompt_template is cut to its first line; the other
\* fields are those of the source.
TEMPLATE_financial ==
    JObj(<<[key |-> <<"n", "a", "m", "e">>,
            val |-> JStr(<<"F", "i", "n", "a", "n", "c", "i", "a", "l", SP, "A", "n", "a", "l", "y", "s", "i", "s">>)],
           [key |-> <<"d", "e", "s", "c", "r", "i", "p", "t", "i", "o", "n">>,
            val |-> JStr(<<"A", "n", "a", "l", "y", "z", "e", SP, "f", "i", "n", "a", "n", "c", "i", "a", "l", SP, "d", "o", "c", "u", "m", "e", "n", "t", "s", SP, "a", "n", "d", SP, "s", "t", "a", "t", "e", "m", "e", "n", "t", "s">>)],
           [key |-> <<"p", "r", "o", "m", "p", "t", "_", "t", "e", "m", "p", "l", "a", "t", "e">>,
            val |-> JStr(<<"A", "n", "a", "l", "y", "z", "e", SP, "t", "h", "i", "s", SP, "f", "i", "n", "a", "n", "c", "i", "a", "l", SP, "d", "o", "c", "u", "m", "e", "n", "t", SP, "a", "n", "d", SP, "p", "r", "o", "v", "i", "d", "e", ":">>)],
           [key |-> <<"v", "i", "s", "u", "a", "l", "i", "z", "a", "t", "i", "o", "n">>,
            val |-> JObj(<<[key |-> <<"m", "e", "t", "r", "i", "c", "s">>,
                           val |-> JObj(<<[key |-> <<"t", "y", "p", "e">>,
                                          val |-> JStr(<<"b", "a", "r">>)],
                                         [key |-> <<"f", "i", "e", "l", "d", "s">>,
                                          val |-> JArr(<<JStr(<<"r", "e", "v", "e", "n", "u", "e">>),
                                                        JStr(<<"n", "e", "t", "_", "i", "n", "c", "o", "m", "e">>),
                                                        JStr(<<"c", "a", "s", "h", "_", "f", "l", "o", "w">>)>>)],
                                         [key |-> <<"t", "i", "t", "l", "e">>,
                                          val |-> JStr(<<"K", "e", "y", SP, "F", "i", "n", "a", "n", "c", "i", "a", "l", SP, "M", "e", "t", "r", "i", "c", "s">>)],
                                         [key |-> <<"u", "n", "i", "t">>,
                                          val |-> JStr(<<"m", "i", "l", "l", "i", "o", "n", "s">>)]>>)],
                          [key |-> <<"r", "a", "t", "i", "o", "s">>,
                           val |-> JObj(<<[key |-> <<"t", "y", "p", "e">>,
                                          val |-> JStr(<<"r", "a", "d", "a", "r">>)],
                                         [key |-> <<"f", "i", "e", "l", "d", "s">>,
                                          val |-> JArr(<<JStr(<<"d", "e", "b", "t", "_", "t", "o", "_", "e", "q", "u", "i", "t", "y">>),
                                                        JStr(<<"c", "u", "r", "r", "e", "n", "t", "_", "r", "a", "t", "i", "o">>),
                                                        JStr(<<"q", "u", "i", "c", "k", "_", "r", "a", "t", "i", "o">>)>>)],
                                         [key |-> <<"t", "i", "t", "l", "e">>,
                                          val |-> JStr(<<"F", "i", "n", "a", "n", "c", "i", "a", "l", SP, "R", "a", "t", "i", "o", "s", SP, "A", "n", "a", "l", "y", "s", "i", "s">>)]>>)],
                          [key |-> <<"s", "c", "o", "r", "e">>,
                           val |-> JObj(<<[key |-> <<"t", "y", "p", "e">>,
                                          val |-> JStr(<<"g", "a", "u", "g", "e">>)],
                                         [key |-> <<"f", "i", "e", "l", "d">>,
                                          val |-> JStr(<<"c", "r", "e", "d", "i", "t", "_", "s", "c", "o", "r", "e">>)],
                                         [key |-> <<"t", "i", "t", "l", "e">>,
                                          val |-> JStr(<<"C", "r", "e", "d", "i", "t", SP, "S", "c", "o", "r", "e">>)],
                                         [key |-> <<"m", "i", "n">>,
                                          val |-> JNum(0)],
                                         [key |-> <<"m", "a", "x">>,
                                          val |-> JNum(100)]>>)]>>)]>>)

TEMPLATE_legal ==
    JObj(<<[key |-> <<"n", "a", "m", "e">>,
            val |-> JStr(<<"L", "e", "g", "a", "l", SP, "D", "o", "c", "u", "m", "e", "n", "t", SP, "A", "n", "a", "l", "y", "s", "i", "s">>)],
           [key |-> <<"d", "e", "s", "c", "r", "i", "p", "t", "i", "o", "n">>,
            val |-> JStr(<<"A", "n", "a", "l", "y", "z", "e", SP, "l", "e", "g", "a", "l", SP, "d", "o", "c", "u", "m", "e", "n", "t", "s", ",", SP, "c", "o", "n", "t", "r", "a", "c", "t", "s", ",", SP, "a", "n", "d", SP, "a", "g", "r", "e", "e", "m", "e", "n", "t", "s">>)],
           [key |-> <<"p", "r", "o", "m", "p", "t", "_", "t", "e", "m", "p", "l", "a", "t", "e">>,
            val |-> JStr(<<"A", "n", "a", "l", "y", "z", "e", SP, "t", "h", "i", "s", SP, "l", "e", "g", "a", "l", SP, "d", "o", "c", "u", "m", "e", "n", "t", SP, "a", "n", "d", SP, "p", "r", "o", "v", "i", "d", "e", ":">>)],
           [key |-> <<"v", "i", "s", "u", "a", "l", "i", "z", "a", "t", "i", "o", "n">>,
            val |-> JObj(<<[key |-> <<"s", "c", "o", "r", "e", "s">>,
                           val |-> JObj(<<[key |-> <<"t", "y", "p", "e">>,
                                          val |-> JStr(<<"r", "a", "d", "a", "r">>)],
                                         [key |-> <<"f", "i", "e", "l", "d", "s">>,
                                          val |-> JArr(<<JStr(<<"e", "v", "a", "l", "u", "a", "t", "i", "o", "n", ".", "c", "o", "m", "p", "l", "e", "t", "e", "n", "e", "s", "s", "_", "s", "c", "o", "r", "e">>),
                                                        JStr(<<"e", "v", "a", "l", "u", "a", "t", "i", "o", "n", ".", "e", "n", "f", "o", "r", "c", "e", "a", "b", "i", "l", "i", "t", "y", "_", "s", "c", "o", "r", "e">>),
                                                        JStr(<<"e", "v", "a", "l", "u", "a", "t", "i", "o", "n", ".", "o", "v", "e", "r", "a", "l", "l", "_", "s", "c", "o", "r", "e">>)>>)],
                                         [key |-> <<"t", "i", "t", "l", "e">>,
                                          val |-> JStr(<<"D", "o", "c", "u", "m", "e", "n", "t", SP, "Q", "u", "a", "l", "i", "t", "y", SP, "S", "c", "o", "r", "e", "s">>)]>>)],
                          [key |-> <<"r", "i", "s", "k", "_", "l", "e", "v", "e", "l">>,
                           val |-> JObj(<<[key |-> <<"t", "y", "p", "e">>,
                                          val |-> JStr(<<"g", "a", "u", "g", "e">>)],
                                         [key |-> <<"f", "i", "e", "l", "d">>,
                                          val |-> JStr(<<"e", "v", "a", "l", "u", "a", "t", "i", "o", "n", ".", "o", "v", "e", "r", "a", "l", "l", "_", "s", "c", "o", "r", "e">>)],
                                         [key |-> <<"t", "i", "t", "l", "e">>,
                                          val |-> JStr(<<"O", "v", "e", "r", "a", "l", "l", SP, "R", "i", "s", "k", SP, "L", "e", "v", "e", "l">>)],
                                         [key |-> <<"m", "i", "n">>,
                                          val |-> JNum(0)],
                                         [key |-> <<"m", "a", "x">>,
                                          val |-> JNum(100)]>>)]>>)]>>)

TEMPLATE_medical ==
    JObj(<<[key |-> <<"n", "a", "m", "e">>,
            val |-> JStr(<<"M", "e", "d", "i", "c", "a", "l", SP, "R", "e", "s", "e", "a", "r", "c", "h", SP, "A", "n", "a", "l", "y", "s", "i", "s">>)],
           [key |-> <<"d", "e", "s", "c", "r", "i", "p", "t", "i", "o", "n">>,
            val |-> JStr(<<"A", "n", "a", "l", "y", "z", "e", SP, "m", "e", "d", "i", "c", "a", "l", SP, "r", "e", "s", "e", "a", "r", "c", "h", SP, "p", "a", "p", "e", "r", "s", SP, "a", "n", "d", SP, "c", "l", "i", "n", "i", "c", "a", "l", SP, "s", "t", "u", "d", "i", "e", "s">>)],
           [key |-> <<"p", "r", "o", "m", "p", "t", "_", "t", "e", "m", "p", "l", "a", "t", "e">>,
            val |-> JStr(<<"A", "n", "a", "l", "y", "z", "e", SP, "t", "h", "i", "s", SP, "m", "e", "d", "i", "c", "a", "l", SP, "r", "e", "s", "e", "a", "r", "c", "h", SP, "p", "a", "p", "e", "r", SP, "a", "n", "d", SP, "p", "r", "o", "v", "i", "d", "e", ":">>)],
           [key |-> <<"v", "i", "s", "u", "a", "l", "i", "z", "a", "t", "i", "o", "n">>,
            val |-> JObj(<<[key |-> <<"q", "u", "a", "l", "i", "t", "y", "_", "s", "c", "o", "r", "e", "s">>,
                           val |-> JObj(<<[key |-> <<"t", "y", "p", "e">>,
                                          val |-> JStr(<<"r", "a", "d", "a", "r">>)],
                                         [key |-> <<"f", "i", "e", "l", "d", "s">>,
                                          val |-> JArr(<<JStr(<<"q", "u", "a", "l", "i", "t", "y", ".", "m", "e", "t", "h", "o", "d", "o", "l", "o", "g", "y", "_", "s", "c", "o", "r", "e">>),
                                                        JStr(<<"q", "u", "a", "l", "i", "t", "y", ".", "e", "v", "i", "d", "e", "n", "c", "e", "_", "s", "c", "o", "r", "e">>),
                                                        JStr(<<"q", "u", "a", "l", "i", "t", "y", ".", "b", "i", "a", "s", "_", "r", "i", "s", "k", "_", "s", "c", "o", "r", "e">>),
                                                        JStr(<<"q", "u", "a", "l", "i", "t", "y", ".", "o", "v", "e", "r", "a", "l", "l", "_", "s", "c", "o", "r", "e">>)>>)],
                                         [key |-> <<"t", "i", "t", "l", "e">>,
                                          val |-> JStr(<<"S", "t", "u", "d", "y", SP, "Q", "u", "a", "l", "i", "t", "y", SP, "A", "s", "s", "e", "s", "s", "m", "e", "n", "t">>)]>>)],
                          [key |-> <<"o", "v", "e", "r", "a", "l", "l", "_", "q", "u", "a", "l", "i", "t", "y">>,
                           val |-> JObj(<<[key |-> <<"t", "y", "p", "e">>,
                                          val |-> JStr(<<"g", "a", "u", "g", "e">>)],
                                         [key |-> <<"f", "i", "e", "l", "d">>,
                                          val |-> JStr(<<"q", "u", "a", "l", "i", "t", "y", ".", "o", "v", "e", "r", "a", "l", "l", "_", "s", "c", "o", "r", "e">>)],
                                         [key |-> <<"t", "i", "t", "l", "e">>,
                                          val |-> JStr(<<"O", "v", "e", "r", "a", "l", "l", SP, "S", "t", "u", "d", "y", SP, "Q", "u", "a", "l", "i", "t", "y">>)],
                                         [key |-> <<"m", "i", "n">>,
                                          val |-> JNum(0)],
                                         [key |-> <<"m", "a", "x">>,
                                          val |-> JNum(100)]>>)]>>)]>>)

TEMPLATES == <<TEMPLATE_financial, TEMPLATE_legal, TEMPLATE_medical>>

\* required_fields, line 65
required_fields == <<K_name, K_description, K_prompt_template, K_visualization>>

\* w occurs in s (the `in` of two Python strings)
IsSubstring(w, s) == \E i \in 1..(Len(s) - Len(w) + 1) : StartsWith(s, i, w)

\* `name in x` raises TypeError unless x is a dict, a list or a str
Iterable(x) == x.k \in {"obj", "arr", "str"}

\* `name in x` for a dict (its keys), a list (its elements) or a str (its substrings)
PyIn(name, x) ==
    CASE x.k = "obj" -> DictHas(x.v, name)
      [] x.k = "arr" -> \E i \in 1..Len(x.v) : x.v[i] = JStr(name)
      [] x.k = "str" -> IsSubstring(name, x.v)

NoError == [exc |-> "none", msg |-> "", arg |-> <<>>]
Raise(exc, msg, arg) == [ok |-> FALSE, error |-> [exc |-> exc, msg |-> msg, arg |-> arg]]
Passed == [ok |-> TRUE, error |-> NoError]

\* lines 67-69, from the i-th required field on
RECURSIVE CheckRequired(_, _)
CheckRequired(template, i) ==
    IF i > Len(required_fields) THEN Passed
    ELSE IF ~Iterable(template) THEN Raise("TypeError", "argument is not iterable", <<>>)
    ELSE IF ~PyIn(required_fields[i], template)
        THEN Raise("ValueError", "Missing required field", required_fields[i])
    ELSE CheckRequired(template, i + 1)

\* lines 74-78, from the i-th entry of the visualization dict on
RECURSIVE CheckVisualization(_, _)
CheckVisualization(entries, i) ==
    IF i > Len(entries) THEN Passed
    ELSE LET viz_name == entries[i].key
             viz_config == entries[i].val IN
    IF ~Iterable(viz_config) THEN Raise("TypeError", "argument is not iterable", <<>>)
    ELSE IF ~PyIn(K_type, viz_config) THEN Raise("ValueError", "Visualization missing 'type'", viz_name)
    ELSE IF ~PyIn(K_fields, viz_config) THEN Raise("ValueError", "Visualization missing 'fields'", viz_name)
    ELSE CheckVisualization(entries, i + 1)

\* validate_template, lines 63-80: Passed, or the exception it raises
validate_template(template) ==
    IF ~CheckRequired(template, 1).ok THEN CheckRequired(template, 1)
    ELSE IF template.k # "obj" THEN Raise("TypeError", "indices must be integers", <<>>)
    ELSE LET visualization == DictGet(template.v, K_visualization) IN
    IF visualization.k # "obj" THEN Raise("ValueError", "Visualization must be a dictionary", <<>>)
    ELSE CheckVisualization(visualization.v, 1)

\* str.replace(' ', '_')
replace_spaces(s) == [i \in 1..Len(s) |-> IF s[i] = SP THEN "_" ELSE s[i]]

\* line 84
template_path(template_id) ==
    <<"c", "o", "n", "f", "i", "g", "/", "t", "e", "m", "p", "l", "a", "t", "e", "s", "/">> \o template_id \o <<".", "j", "s", "o", "n">>

\* the components of a path, split at '/'
SplitPath(path) ==
    LET slashes == {i \in 1..Len(path) : path[i] = "/"}
        ends == slashes \cup {Len(path) + 1}
        StartOf(e) == IF \E i \in slashes : i < e
                      THEN Max({i \in slashes : i < e}) + 1 ELSE 1
        Part[n \in 0..(Len(path) + 1)] ==
            IF n = 0 THEN <<>>
            ELSE IF n \in ends THEN Append(Part[n - 1], SubSeq(path, StartOf(n), n - 1))
            ELSE Part[n - 1] IN
    Part[Len(path) + 1]

\* the directories and the file that open(path, 'w') of line 87 walks to, from the
\* working directory: '..' leaves the directory reached so far, '.' and '' stay
ResolvePath(path) ==
    LET parts == SplitPath(path)
        Walk[n \in 0..Len(parts)] ==
            IF n = 0 THEN <<>>
            ELSE IF parts[n] \in {<<>>, <<".">>} THEN Walk[n - 1]
            ELSE IF parts[n] = <<".", ".">>
                THEN SubSeq(Walk[n - 1], 1, Len(Walk[n - 1]) - 1)
            ELSE Append(Walk[n - 1], parts[n]) IN
    Walk[Len(parts)]

\* save_template, lines 82-90: the file at the path holds the template
save_template(files, template, template_id) ==
    [f \in DOMAIN files \cup {template_path(template_id)} |->
        IF f = template_path(template_id) THEN template ELSE files[f]]

NoResult == [success |-> FALSE, error |-> NoError, template_id |-> <<>>, template |-> JNull,
             path |-> <<>>]

\* lines 114-118
Failure(error) == [NoResult EXCEPT !.error = error]

GVS == <<"generate_template", "validate_template", "save_template">>

\* create_custom_template with a save that comes before the validation
create_custom_template_save_first(files, response_text) ==
    LET parsed == json_loads(response_text)
        template == parsed.val
        named == template.k = "obj" /\ DictHas(template.v, K_name)
                 /\ DictGet(template.v, K_name).k = "str"
        template_id == replace_spaces(lower(DictGet(template.v, K_name).v)) IN
    IF ~parsed.ok \/ ~named
    THEN [calls |-> <<"generate_template">>, files |-> files,
          result |-> Failure([exc |-> "Exception", msg |-> "", arg |-> <<>>])]
    ELSE IF ~validate_template(template).ok
    THEN [calls |-> <<"generate_template", "save_template", "validate_template">>,
          files |-> save_template(files, template, template_id),
          result |-> Failure(validate_template(template).error)]
    ELSE [calls |-> GVS,
          files |-> save_template(files, template, template_id),
          result |-> [success |-> TRUE, error |-> NoError, template_id |-> template_id,
                      template |-> template, path |-> template_path(template_id)]]

\* create_custom_template, lines 92-118, from the reply of the LLM on: the calls it
\* makes, the files it leaves and the dict it returns
create_custom_template(files, response_text) ==
    LET parsed == json_loads(response_text)
        template == parsed.val IN
    IF ~parsed.ok
    THEN [calls |-> SubSeq(GVS, 1, 1), files |-> files,
          result |-> Failure([exc |-> "JSONDecodeError", msg |-> "", arg |-> <<>>])]
    ELSE IF ~validate_template(template).ok
    THEN [calls |-> SubSeq(GVS, 1, 2), files |-> files,
          result |-> Failure(validate_template(template).error)]
    ELSE LET name == DictGet(template.v, K_name) IN
    IF name.k # "str"
    THEN [calls |-> SubSeq(GVS, 1, 2), files |-> files,
          result |-> Failure([exc |-> "AttributeError", msg |-> "no attribute 'lower'",
                              arg |-> <<>>])]
    ELSE LET template_id == replace_spaces(lower(name.v)) IN
         [calls |-> GVS,
          files |-> save_template(files, template, template_id),
          result |-> [success |-> TRUE, error |-> NoError, template_id |-> template_id,
                      template |-> template, path |-> template_path(template_id)]]

\* --- replies of the LLM to generate_template

\* a chart entry of a visualization, as the LLM may write it
VizFlavours ==
    {JObj(<<[key |-> <<"c">>, val |-> JObj(<<[key |-> K_type, val |-> JStr(<<"b", "a", "r">>)],
                                             [key |-> K_fields, val |-> JArr(<<JStr(<<"x">>)>>)]>>)]>>),
     JObj(<<[key |-> <<"g">>, val |-> JObj(<<[key |-> K_type, val |-> JStr(<<"g", "a", "u", "g", "e">>)],
                                             [key |-> K_field, val |-> JStr(<<"x">>)]>>)]>>),
     JObj(<<[key |-> <<"c">>, val |-> JObj(<<[key |-> K_fields, val |-> JArr(<<JStr(<<"x">>)>>)]>>)]>>),
     JObj(<<>>),
     JArr(<<JStr(<<"b", "a", "r">>)>>),
     JObj(<<[key |-> <<"c">>, val |-> JArr(<<JStr(K_type), JStr(K_fields)>>)]>>),
     JObj(<<[key |-> <<"c">>, val |-> JNum(1)]>>)}

\* names the LLM may give a template: a title, a number, a relative path
NameFlavours == {JStr(<<"M", "y", SP, "T">>), JNum(1), JStr(<<".", ".", "/", "X", SP, "y">>)}

\* the members a generated template has, by the required fields the LLM wrote
MembersOf(present, name, viz) ==
    LET all == <<[key |-> K_name, val |-> name],
                 [key |-> K_description, val |-> JStr(<<"d">>)],
                 [key |-> K_prompt_template, val |-> JStr(<<"p">>)],
                 [key |-> K_visualization, val |-> viz]>>
        keep == {i \in 1..4 : i \in present}
        Pick[i \in 0..4] ==
            IF i = 0 THEN <<>>
            ELSE IF i \in keep THEN Append(Pick[i - 1], all[i]) ELSE Pick[i - 1] IN
    Pick[4]

GeneratedTemplates ==
    {JObj(MembersOf(present, name, viz)) :
        present \in SUBSET (1..4), name \in NameFlavours, viz \in VizFlavours}

TemplateValues ==
    GeneratedTemplates
    \cup {TEMPLATES[i] : i \in 1..Len(TEMPLATES)}
    \cup {JArr(<<JStr(K_name), JStr(K_description), JStr(K_prompt_template),
                 JStr(K_visualization)>>)}

TemplateReplies ==
    {Proses_pre_suf.pre \o Render(val, <<",", SP>>, tr) \o Proses_pre_suf.suf :
        val \in TemplateValues, tr \in Trailers, Proses_pre_suf \in Proses}
    \cup RawTexts


\* ------------------------------------------------------------------------
\* State
\* ------------------------------------------------------------------------
VARIABLES
    document_store,   \* the dict of line 40: document id -> text
    pc,               \* "idle", the handler that waits for the LLM, or "responded"
    req,              \* the locals of the handler that runs or ran last
    llm_request,      \* the text sent to the LLM by the handler that runs or ran last
    llm_calls,        \* calls of client.messages.create made by that handler
    llm_reply,        \* the reply the analyze handler got, as drawn from AnalysisReplies
    response_text,    \* message.content[0].text of that reply
    fixed,            \* fix_json(response_text) of that reply
    response,         \* the response of the handler that ran last
    template_files,   \* the files of config/templates: path -> the template written
    tpc,              \* create_custom_template: "idle", "generate_llm" or "returned"
    template_reply,   \* message.content[0].text of the reply generate_template got
    calls,            \* the functions create_custom_template called, in order
    result,           \* what create_custom_template returned last
    file_bytes,       \* the files of config/templates on disk: path -> its characters
    workers           \* the requests that run at the same time: where each one is

appvars == <<document_store, pc, req, llm_request, llm_calls, llm_reply, response_text,
             fixed, response>>

tplvars == <<template_files, tpc, template_reply, calls, result>>

racevars == <<file_bytes, workers>>

vars == <<appvars, tplvars, racevars>>

\* the requests that can run at the same time
NumWorkers == 2
Workers == 1..NumWorkers

\* a worker that runs no request
IdleWorker == [pc |-> "idle", job |-> "none", path |-> <<>>, data |-> <<>>, doc_id |-> "",
               text |-> ""]

NoReq == [handler |-> "none", text |-> "", doc_id |-> "", file_ext |-> <<>>, question |-> ""]
NoLlmRequest == [prompt |-> "none", ext |-> <<>>, text |-> "", question |-> ""]
NoFixed == [outcome |-> "none", json_str |-> <<>>, isolated |-> <<>>, steps |-> <<>>]
NoResponse == [status |-> 0, body |-> "none", keys |-> {}, error |-> "", analysis |-> <<>>,
               documentId |-> "", answer |-> ""]

\* jsonify({'error': msg}), status
ErrorResponse(status, msg) ==
    [NoResponse EXCEPT !.status = status, !.body = "object", !.keys = {"error"}, !.error = msg]

\* line 321: jsonify({'error': ...}, 400) serializes the pair as a list and the
\* handler returns it without a status, which Flask answers with 200
UnsupportedTypeResponse ==
    [NoResponse EXCEPT !.status = 200, !.body = "list", !.error = "Unsupported file type"]

\* lines 386-389
AnalysisResponse(json_str, doc_id) ==
    [NoResponse EXCEPT !.status = 200, !.body = "object", !.keys = {"analysis", "documentId"},
                       !.analysis = json_str, !.documentId = doc_id]

\* line 446
AnswerResponse(answer) ==
    [NoResponse EXCEPT !.status = 200, !.body = "object", !.keys = {"answer"}, !.answer = answer]

Init ==
    /\ document_store = [d \in {} |-> ""]
    /\ pc = "idle"
    /\ req = NoReq
    /\ llm_request = NoLlmRequest
    /\ llm_calls = 0
    /\ llm_reply = NoReply
    /\ response_text = <<>>
    /\ fixed = NoFixed
    /\ response = NoResponse
    /\ template_files = [f \in {} |-> JNull]
    /\ tpc = "idle"
    /\ template_reply = <<>>
    /\ calls = <<>>
    /\ result = NoResult
    /\ file_bytes = [f \in {} |-> <<>>]
    /\ workers = [p \in Workers |-> IdleWorker]

\* a store that keeps only the entry written last
StorePut_latest_only(store, doc_id, text) == [d \in {doc_id} |-> text]

\* document_store[doc_id] = text
StorePut(store, doc_id, text) ==
    [d \in DOMAIN store \cup {doc_id} |-> IF d = doc_id THEN text ELSE store[d]]

\* ------------------------------------------------------------------------
\* analyze_document (src/app.py, lines 297-401)
\* ------------------------------------------------------------------------

\* the response of the checks of lines 306-335, NoResponse when all pass
UploadRejection(up) ==
    IF ~up.has_file THEN ErrorResponse(400, "No file provided")
    ELSE IF up.filename = <<>> THEN ErrorResponse(400, "No file selected")
    ELSE IF lower(splitext(up.filename)) \notin DOCUMENT_HANDLERS THEN UnsupportedTypeResponse
    ELSE IF up.extract.raised THEN ErrorResponse(400, "extraction failed")
    ELSE IF up.extract.text = "" THEN ErrorResponse(400, "Could not extract text from file")
    ELSE NoResponse

\* lines 306-335 return an error: the request ends before the store is written
AnalyzeRejected(up) ==
    /\ pc = "idle"
    /\ UploadRejection(up) # NoResponse
    /\ response' = UploadRejection(up)
    /\ req' = [NoReq EXCEPT !.handler = "analyze",
                            !.file_ext = IF up.has_file THEN lower(splitext(up.filename)) ELSE <<>>]
    /\ llm_request' = NoLlmRequest
    /\ llm_calls' = 0
    /\ llm_reply' = NoReply
    /\ response_text' = <<>>
    /\ fixed' = NoFixed
    /\ pc' = "responded"
    /\ UNCHANGED document_store
    /\ UNCHANGED tplvars
    /\ UNCHANGED racevars

\* lines 306-353: the upload passes, the text is stored, the prompt is sent
AnalyzeStart(up) ==
    /\ pc = "idle"
    /\ UploadRejection(up) = NoResponse
    /\ LET text == up.extract.text
           doc_id == Hash(text)
           file_ext == lower(splitext(up.filename)) IN
        /\ document_store' = StorePut(document_store, doc_id, text)
        /\ req' = [NoReq EXCEPT !.handler = "analyze", !.text = text, !.doc_id = doc_id,
                                !.file_ext = file_ext]
        /\ llm_request' = [prompt |-> "analyze", ext |-> file_ext, text |-> text,
                           question |-> ""]
    /\ llm_calls' = 1
    /\ pc' = "analyze_llm"
    /\ llm_reply' = NoReply
    /\ response_text' = <<>>
    /\ fixed' = NoFixed
    /\ response' = NoResponse
    /\ UNCHANGED tplvars
    /\ UNCHANGED racevars

\* the response the JSON-fixing block ends with: line 386, 371 or 393
FixedResponse(fx, doc_id) ==
    CASE fx.outcome = "ok" -> AnalysisResponse(fx.json_str, doc_id)
      [] fx.outcome = "no_match" -> ErrorResponse(500, "Invalid analysis format received")
      [] fx.outcome = "invalid" -> ErrorResponse(500, "Failed to process analysis results")

\* lines 356-393: the reply arrives and goes through the JSON-fixing block
AnalyzeReply ==
    /\ pc = "analyze_llm"
    /\ \E reply \in AnalysisReplies : llm_reply' = reply
    /\ response_text' = TextOf(llm_reply')
    /\ fixed' = fix_json(response_text')
    /\ response' = FixedResponse(fixed', req.doc_id)
    /\ pc' = "responded"
    /\ UNCHANGED <<document_store, req, llm_request, llm_calls>>
    /\ UNCHANGED tplvars
    /\ UNCHANGED racevars

\* an error path that takes the document out of the store again
AnalyzeLlmError_rollback ==
    /\ pc = "analyze_llm"
    /\ response' = ErrorResponse(500, "Failed to analyze document")
    /\ pc' = "responded"
    /\ document_store' = [d \in DOMAIN document_store \ {req.doc_id} |-> document_store[d]]
    /\ UNCHANGED <<req, llm_request, llm_calls, llm_reply, response_text, fixed>>
    /\ UNCHANGED tplvars
    /\ UNCHANGED racevars

\* lines 395-397: client.messages.create raised
AnalyzeLlmError ==
    /\ pc = "analyze_llm"
    /\ response' = ErrorResponse(500, "Failed to analyze document")
    /\ pc' = "responded"
    /\ UNCHANGED <<document_store, req, llm_request, llm_calls, llm_reply, response_text, fixed>>
    /\ UNCHANGED tplvars
    /\ UNCHANGED racevars

\* ------------------------------------------------------------------------
\* ask (src/app.py, lines 403-449)
\* ------------------------------------------------------------------------
Questions == {"Q1"}
AskedIds == {"h1", "h2", "h9"}
Answers == {"A1"}

\* the JSON body of an ask request; a missing key is has_* = FALSE
AskBodies == [has_question : BOOLEAN, has_id : BOOLEAN, question : Questions, documentId : AskedIds]

AskRejection(data) ==
    IF ~data.has_question \/ ~data.has_id THEN ErrorResponse(400, "Missing question or document ID")
    ELSE IF data.documentId \notin DOMAIN document_store
        THEN ErrorResponse(404, "Document not found. Please upload it again.")
    ELSE NoResponse

\* lines 419-426 return an error
AskRejected(data) ==
    /\ pc = "idle"
    /\ AskRejection(data) # NoResponse
    /\ response' = AskRejection(data)
    /\ req' = IF data.has_question /\ data.has_id
              THEN [NoReq EXCEPT !.handler = "ask", !.doc_id = data.documentId,
                                 !.question = data.question]
              ELSE [NoReq EXCEPT !.handler = "ask"]
    /\ llm_request' = NoLlmRequest
    /\ llm_calls' = 0
    /\ llm_reply' = NoReply
    /\ response_text' = <<>>
    /\ fixed' = NoFixed
    /\ pc' = "responded"
    /\ UNCHANGED document_store
    /\ UNCHANGED tplvars
    /\ UNCHANGED racevars

\* lines 419-444: the document is found and the question is sent with its text
AskStart(data) ==
    /\ pc = "idle"
    /\ AskRejection(data) = NoResponse
    /\ req' = [NoReq EXCEPT !.handler = "ask", !.doc_id = data.documentId,
                            !.question = data.question]
    /\ llm_request' = [prompt |-> "ask", ext |-> <<>>, text |-> document_store[data.documentId],
                       question |-> data.question]
    /\ llm_calls' = 1
    /\ pc' = "ask_llm"
    /\ llm_reply' = NoReply
    /\ response_text' = <<>>
    /\ fixed' = NoFixed
    /\ response' = NoResponse
    /\ UNCHANGED document_store
    /\ UNCHANGED tplvars
    /\ UNCHANGED racevars

\* line 446
AskReply(answer) ==
    /\ pc = "ask_llm"
    /\ response' = AnswerResponse(answer)
    /\ pc' = "responded"
    /\ UNCHANGED <<document_store, req, llm_request, llm_calls, llm_reply, response_text, fixed>>
    /\ UNCHANGED tplvars
    /\ UNCHANGED racevars

\* lines 447-449
AskLlmError ==
    /\ pc = "ask_llm"
    /\ response' = ErrorResponse(500, "Failed to get answer from Claude")
    /\ pc' = "responded"
    /\ UNCHANGED <<document_store, req, llm_request, llm_calls, llm_reply, response_text, fixed>>
    /\ UNCHANGED tplvars
    /\ UNCHANGED racevars

\* the response goes out to the client and the handler's locals are dropped; the
\* server takes the next request
Respond ==
    /\ pc = "responded"
    /\ pc' = "idle"
    /\ req' = NoReq
    /\ llm_request' = NoLlmRequest
    /\ llm_calls' = 0
    /\ llm_reply' = NoReply
    /\ response_text' = <<>>
    /\ fixed' = NoFixed
    /\ response' = NoResponse
    /\ UNCHANGED document_store
    /\ UNCHANGED tplvars
    /\ UNCHANGED racevars

Next ==
    \/ \E up \in Uploads : AnalyzeRejected(up)
    \/ \E up \in Uploads : AnalyzeStart(up)
    \/ AnalyzeReply
    \/ AnalyzeLlmError
    \/ \E data \in AskBodies : AskRejected(data)
    \/ \E data \in AskBodies : AskStart(data)
    \/ \E answer \in Answers : AskReply(answer)
    \/ AskLlmError
    \/ Respond

Spec == Init /\ [][Next]_vars



\* ------------------------------------------------------------------------
\* create_custom_template (src/template_builder.py, lines 92-118)
\* ------------------------------------------------------------------------

\* the file at path holds the characters cs
FilePut(files, path, cs) == [f \in DOMAIN files \cup {path} |-> IF f = path THEN cs ELSE files[f]]

\* line 96 up to the call of client.messages.create in generate_template (line 11)
CreateStart ==
    /\ tpc = "idle"
    /\ tpc' = "generate_llm"
    /\ calls' = <<"generate_template">>
    /\ template_reply' = <<>>
    /\ result' = NoResult
    /\ UNCHANGED template_files
    /\ UNCHANGED appvars
    /\ UNCHANGED racevars

\* lines 58-118: the reply arrives; it is parsed, validated and saved
CreateReply ==
    /\ tpc = "generate_llm"
    /\ \E text \in TemplateReplies : template_reply' = text
    /\ LET done == create_custom_template(template_files, template_reply') IN
        /\ calls' = done.calls
        /\ template_files' = done.files
        /\ result' = done.result
    /\ file_bytes' =
        [f \in DOMAIN file_bytes \cup DOMAIN template_files' |->
            IF f \in DOMAIN template_files'
               /\ (f \notin DOMAIN template_files \/ template_files'[f] # template_files[f])
            THEN json_dump_indent(template_files'[f], 0)
            ELSE file_bytes[f]]
    /\ tpc' = "returned"
    /\ UNCHANGED workers
    /\ UNCHANGED appvars

\* lines 114-118: client.messages.create raised
CreateLlmError ==
    /\ tpc = "generate_llm"
    /\ result' = Failure([exc |-> "APIError", msg |-> "", arg |-> <<>>])
    /\ tpc' = "returned"
    /\ UNCHANGED <<template_files, template_reply, calls>>
    /\ UNCHANGED appvars
    /\ UNCHANGED racevars

\* the caller has the result; create_custom_template can be called again
CreateReturn ==
    /\ tpc = "returned"
    /\ tpc' = "idle"
    /\ calls' = <<>>
    /\ template_reply' = <<>>
    /\ result' = NoResult
    /\ UNCHANGED template_files
    /\ UNCHANGED appvars
    /\ UNCHANGED racevars

NextTemplates ==
    \/ CreateStart
    \/ CreateReply
    \/ CreateLlmError
    \/ CreateReturn

SpecTemplates == Init /\ [][NextTemplates]_vars

\* ------------------------------------------------------------------------
\* Requests that run at the same time: save_template (src/template_builder.py,
\* lines 82-90) and the store write of analyze_document (src/app.py, line 339)
\* ------------------------------------------------------------------------

\* the templates create_custom_template saves: they pass validate_template (line 99)
\* and their name is a string (line 102)
SavedTemplates ==
    {t \in GeneratedTemplates :
        validate_template(t).ok /\ DictGet(t.v, K_name).k = "str"}

\* write(fd, data) of a file opened at offset 0: data replaces the first
\* characters of the file, and what the file holds beyond them stays
WriteAtStart(old, data) == data \o SubSeq(old, Len(data) + 1, Len(old))

\* lines 84-87: open(template_path, 'w') creates the file or truncates it; line 88
\* leaves the text of json.dump in the buffer of the file object
SaveOpen(p, t) ==
    /\ workers[p].pc = "idle"
    /\ LET template_id == replace_spaces(lower(DictGet(t.v, K_name).v))
           path == template_path(template_id) IN
        /\ file_bytes' = FilePut(file_bytes, path, <<>>)
        /\ workers' = [workers EXCEPT ![p] =
                [IdleWorker EXCEPT !.pc = "opened", !.job = "save", !.path = path,
                                   !.data = json_dump_indent(t, 0)]]
    /\ UNCHANGED appvars
    /\ UNCHANGED tplvars

\* the end of the with block of line 87: the buffer is written at the offset of
\* this file object, which is 0, and the file is closed
SaveClose(p) ==
    /\ workers[p].pc = "opened"
    /\ file_bytes' = FilePut(file_bytes, workers[p].path,
                             WriteAtStart(file_bytes[workers[p].path], workers[p].data))
    /\ workers' = [workers EXCEPT ![p].pc = "done"]
    /\ UNCHANGED appvars
    /\ UNCHANGED tplvars

\* src/app.py, lines 338-339: one dict assignment
StoreWrite(p, text) ==
    /\ workers[p].pc = "idle"
    /\ document_store' = StorePut(document_store, Hash(text), text)
    /\ workers' = [workers EXCEPT ![p] =
            [IdleWorker EXCEPT !.pc = "done", !.job = "put", !.doc_id = Hash(text),
                               !.text = text]]
    /\ UNCHANGED <<pc, req, llm_request, llm_calls, llm_reply, response_text, fixed, response>>
    /\ UNCHANGED <<tplvars, file_bytes>>

\* all requests have completed; the next ones arrive
AllDone ==
    /\ \A p \in Workers : workers[p].pc = "done"
    /\ workers' = [p \in Workers |-> IdleWorker]
    /\ UNCHANGED file_bytes
    /\ UNCHANGED appvars
    /\ UNCHANGED tplvars

NextRace ==
    \/ \E p \in Workers : \E t \in SavedTemplates : SaveOpen(p, t)
    \/ \E p \in Workers : SaveClose(p)
    \/ \E p \in Workers : \E text \in Texts : StoreWrite(p, text)
    \/ AllDone

SpecRace == Init /\ [][NextRace]_vars

\* ------------------------------------------------------------------------
\* Properties of analyze_document's JSON-fixing block
\* ------------------------------------------------------------------------

\* an analyze request has been answered after its reply went through the block
AnalyzeAnswered == pc = "responded" /\ req.handler = "analyze" /\ fixed.outcome # "none"

HasStep(name) == \E i \in 1..Len(fixed.steps) : fixed.steps[i] = name

Contains(s, c) == \E i \in 1..Len(s) : s[i] = c

\* C1: every response that carries `analysis` holds text that parses as JSON, and
\* when neither the reply nor the repaired text parses, the request ends with a 500
\* error response that carries neither `analysis` nor `documentId`.
C1_AnalysisIsValidJson ==
    /\ "analysis" \in response.keys => json_loads(response.analysis).ok
    /\ AnalyzeAnswered =>
        LET match == re_search_braces(response_text)
            unrepaired == \/ ~match.found
                          \/ ~json_loads(clean_extracted(match.group)).ok IN
        (~json_loads(response_text).ok /\ unrepaired) =>
            /\ response.status = 500
            /\ response.keys = {"error"}

\* a repaired reply was returned: the substitutions changed the isolated text
C1_Witness ==
    /\ AnalyzeAnswered
    /\ HasStep("sub")
    /\ "analysis" \in response.keys
    /\ response.analysis # fixed.isolated

\* C2: a reply that is valid JSON, of any kind, takes the fast path: no search and
\* no substitution is applied, and `analysis` is the re-serialization of its parse,
\* which parses back to the same value.
C2_FastPathIdempotent ==
    (AnalyzeAnswered /\ json_loads(response_text).ok) =>
        /\ fixed.steps = <<"loads", "dumps">>
        /\ response.status = 200
        /\ "analysis" \in response.keys
        /\ response.analysis = json_dumps(json_loads(response_text).val)
        /\ json_loads(response.analysis) = json_loads(response_text)

\* a valid reply that is not an object was answered
C2_Witness ==
    /\ AnalyzeAnswered
    /\ json_loads(response_text).ok
    /\ json_loads(response_text).val.k \in {"arr", "str", "num", "bool", "null"}
    /\ "analysis" \in response.keys

\* C3: on the non-fast path, when the isolated text is itself valid JSON, the
\* returned analysis has the value of the isolated text (no string is changed).
C3_NoSemanticChange ==
    (AnalyzeAnswered /\ HasStep("sub") /\ json_loads(fixed.isolated).ok) =>
        /\ "analysis" \in response.keys
        /\ json_loads(response.analysis) = json_loads(fixed.isolated)

NumbersOnly(x) == x.k = "arr" /\ x.v # <<>> /\ \A i \in 1..Len(x.v) : x.v[i].k = "num"

\* C4: an object that holds an array of numbers separated by whitespace only is
\* repaired to the object with the same array.
C4_ArrayCommasInserted ==
    (/\ AnalyzeAnswered
     /\ llm_reply.src = "written"
     /\ llm_reply.val.k = "obj" /\ Len(llm_reply.val.v) = 1
     /\ NumbersOnly(llm_reply.val.v[1].val) /\ Len(llm_reply.val.v[1].val.v) > 1
     /\ llm_reply.sep \in {<<SP>>, <<NL>>}
     /\ llm_reply.tr = <<>>
     /\ llm_reply.prose.pre = <<>>) =>
        /\ "analysis" \in response.keys
        /\ json_loads(response.analysis).val = llm_reply.val

\* C5: an object whose members are numbers, true, false, null or strings, written
\* with whitespace and no comma between a value and the next key, is repaired to
\* the object with the same members and values.
C5_MemberCommasInserted ==
    (/\ AnalyzeAnswered
     /\ llm_reply.src = "written"
     /\ llm_reply.val.k = "obj" /\ Len(llm_reply.val.v) > 1
     /\ \A i \in 1..Len(llm_reply.val.v) :
            llm_reply.val.v[i].val.k \in {"num", "bool", "null", "str"}
     /\ llm_reply.sep \in {<<SP>>, <<NL>>}
     /\ llm_reply.tr = <<>>
     /\ llm_reply.prose.pre = <<>>) =>
        /\ "analysis" \in response.keys
        /\ json_loads(response.analysis).val = llm_reply.val

\* C6: an object whose only defect is a comma before each closing bracket is
\* repaired to the value of the text without those commas.
C6_TrailingCommasRemoved ==
    (/\ AnalyzeAnswered
     /\ llm_reply.src = "written"
     /\ llm_reply.val.k = "obj" /\ llm_reply.val.v # <<>>
     /\ llm_reply.sep \in {<<",", SP>>, <<",", NL>>}
     /\ llm_reply.tr = <<",">>
     /\ llm_reply.prose.pre = <<>>) =>
        /\ "analysis" \in response.keys
        /\ json_loads(response.analysis).val = llm_reply.val

\* C7: when the reply does not parse, the block works on the text from the first
\* '{' to the last '}' of the reply; a reply without '{' or without '}' ends with
\* the 500 response 'Invalid analysis format received', with no substitution
\* applied and no analysis returned.
C7_IsolationOrNoJsonFound ==
    (AnalyzeAnswered /\ ~json_loads(response_text).ok) =>
        /\ HasStep("sub") =>
            \E a \in 1..Len(response_text) : \E b \in a..Len(response_text) :
                /\ fixed.isolated = SubSeq(response_text, a, b)
                /\ response_text[a] = "{" /\ response_text[b] = "}"
                /\ ~Contains(SubSeq(response_text, 1, a - 1), "{")
                /\ ~Contains(SubSeq(response_text, b + 1, Len(response_text)), "}")
        /\ (~Contains(response_text, "{") \/ ~Contains(response_text, "}")) =>
            /\ ~HasStep("sub")
            /\ response = ErrorResponse(500, "Invalid analysis format received")
        /\ (llm_reply.src = "written" /\ llm_reply.val.k = "obj") =>
            fixed.isolated = Render(llm_reply.val, llm_reply.sep, llm_reply.tr)

\* 'no json here' was answered
C7_Witness ==
    /\ AnalyzeAnswered
    /\ response_text = S_no_json_here
    /\ response.status = 500



\* ------------------------------------------------------------------------
\* Properties of create_custom_template
\* ------------------------------------------------------------------------

IsPrefix(a, b) == Len(a) <= Len(b) /\ a = SubSeq(b, 1, Len(a))

Called(cs, name) == \E i \in 1..Len(cs) : cs[i] = name

\* the reply lacks `visualization` and no other required field
LacksOnlyVisualization(t) ==
    /\ t.k = "obj"
    /\ DictHas(t.v, K_name) /\ DictHas(t.v, K_description) /\ DictHas(t.v, K_prompt_template)
    /\ ~DictHas(t.v, K_visualization)

C8_Step ==
    LET parsed == json_loads(template_reply')
        valid == parsed.ok /\ validate_template(parsed.val).ok IN
    /\ IsPrefix(calls', GVS)
    /\ (template_files' # template_files \/ Called(calls', "save_template")) =>
        /\ valid
        /\ calls' = GVS
        /\ result'.success
    /\ (tpc' = "returned" /\ ~valid) =>
        /\ template_files' = template_files
        /\ ~Called(calls', "save_template")
        /\ ~result'.success
        /\ result'.error # NoError
    /\ (tpc' = "returned" /\ parsed.ok /\ LacksOnlyVisualization(parsed.val)) =>
        result'.error = [exc |-> "ValueError", msg |-> "Missing required field",
                         arg |-> K_visualization]

\* C8: create_custom_template calls generate_template, validate_template and
\* save_template in this order; a template file is written only after the reply
\* parsed and passed validate_template; otherwise no file changes, save_template
\* is not called and the result is {success: False, error}, and a reply that
\* lacks only `visualization` is reported as that missing field.
C8_NeverRegisteredUnvalidated == [][C8_Step]_vars

\* a reply without `visualization` was rejected and nothing was saved
C8_Witness ==
    /\ tpc = "returned"
    /\ json_loads(template_reply).ok
    /\ LacksOnlyVisualization(json_loads(template_reply).val)
    /\ ~result.success
    /\ calls = <<"generate_template", "validate_template">>
    /\ DOMAIN template_files = {}

\* a template as the claim describes a valid one
SpecifiedValid(t) ==
    /\ t.k = "obj"
    /\ \A i \in 1..Len(required_fields) : DictHas(t.v, required_fields[i])
    /\ LET visualization == DictGet(t.v, K_visualization) IN
        /\ visualization.k = "obj"
        /\ \A i \in 1..Len(visualization.v) :
            LET viz_config == visualization.v[i].val IN
            /\ viz_config.k = "obj"
            /\ DictHas(viz_config.v, K_type)
            /\ DictHas(viz_config.v, K_fields) \/ DictHas(viz_config.v, K_field)

\* C9: a template with the four required fields whose visualization entries have
\* `type` and one of `fields` or `field` passes validation; the built-in
\* templates are such templates.
C9_ValidationAcceptsSpecified ==
    /\ \A i \in 1..Len(TEMPLATES) : SpecifiedValid(TEMPLATES[i])
    /\ (tpc = "returned" /\ json_loads(template_reply).ok
        /\ SpecifiedValid(json_loads(template_reply).val)) =>
            result.error.exc \notin {"ValueError", "TypeError"}

\* C10: when the reply, put through the JSON-fixing block, is a valid template
\* with a name, create_custom_template registers that template.
C10_RepairAppliedToReply ==
    (tpc = "returned" /\ fix_json(template_reply).outcome = "ok") =>
        LET t == json_loads(fix_json(template_reply).json_str).val IN
        (validate_template(t).ok /\ DictGet(t.v, K_name).k = "str") =>
            /\ result.success
            /\ result.template = t
            /\ result.path \in DOMAIN template_files
            /\ template_files[result.path] = t

\* ------------------------------------------------------------------------
\* Properties of the document store
\* ------------------------------------------------------------------------

\* the step stores a text under id d (lines 338-339)
PutUnder(d) == pc = "idle" /\ pc' = "analyze_llm" /\ req'.doc_id = d

C11_Step ==
    \* entries are never deleted, and change only by a put under their id
    /\ \A d \in DOMAIN document_store :
        /\ d \in DOMAIN document_store'
        /\ document_store'[d] # document_store[d] => PutUnder(d)
    /\ \A d \in DOMAIN document_store' :
        d \notin DOMAIN document_store => PutUnder(d)
    \* an id is the id of the text stored under it
    /\ \A d \in DOMAIN document_store' : Hash(document_store'[d]) = d
    \* the id a response returns is the id of the text its upload extracted
    /\ "documentId" \in response'.keys =>
        /\ req'.text \in Texts
        /\ response'.documentId = Hash(req'.text)
        /\ response'.documentId \in DOMAIN document_store'
        /\ document_store'[response'.documentId] = req'.text
    \* an ask with a stored id sends the text stored under it
    /\ (pc = "idle" /\ pc' = "ask_llm") =>
        /\ req'.doc_id \in DOMAIN document_store
        /\ llm_request'.text = document_store[req'.doc_id]
        /\ Hash(llm_request'.text) = req'.doc_id
        /\ document_store' = document_store
    \* an ask with an id that is not stored ends with 404
    /\ (pc = "idle" /\ req'.handler = "ask" /\ req'.doc_id # ""
        /\ req'.doc_id \notin DOMAIN document_store) =>
        /\ response' = ErrorResponse(404, "Document not found. Please upload it again.")
        /\ pc' = "responded"
        /\ llm_calls' = 0
        /\ llm_request' = NoLlmRequest
        /\ document_store' = document_store

\* C11: an ask with document id d sends to the LLM the text extracted by the upload
\* that returned d, whatever was uploaded since: entries are never deleted and
\* change only by a put under the same id; an ask with an id that was never stored
\* returns 404 without a call of the LLM and without a change of the store.
C11_AskSendsStoredText == [][C11_Step]_vars

\* an ask about the first document is sent with its text while a second document
\* is stored too
C11_Witness ==
    /\ pc = "ask_llm"
    /\ req.doc_id = Hash("T1")
    /\ llm_request.text = "T1"
    /\ Hash("T2") \in DOMAIN document_store
    /\ llm_calls = 1

\* ------------------------------------------------------------------------
\* Properties of the upload checks of analyze_document
\* ------------------------------------------------------------------------

\* an analyze request was answered by one of the checks of lines 306-335
RejectedUpload == pc = "responded" /\ req.handler = "analyze" /\ llm_calls = 0

\* C12: an analyze request that fails a check before the store is written (no
\* file, empty file name, unsupported type, extraction failure, empty text) is
\* answered with status 400 and an `error` body.
C12_ValidationFailuresAre400 ==
    RejectedUpload =>
        /\ response.status = 400
        /\ response.body = "object"
        /\ response.keys = {"error"}

\* ------------------------------------------------------------------------
\* Properties of requests that run at the same time
\* ------------------------------------------------------------------------

\* all requests of the batch have completed
Completed == \A p \in Workers : workers[p].pc = "done"

\* the file a request saved holds, in full, what one request of the batch wrote to it
FileIsOneWrite(p) ==
    \E q \in Workers :
        /\ workers[q].job = "save"
        /\ workers[q].path = workers[p].path
        /\ file_bytes[workers[p].path] = workers[q].data

\* the entry a request stored holds the text one request of the batch stored under it
EntryIsOneWrite(p) ==
    \E q \in Workers :
        /\ workers[q].job = "put"
        /\ workers[q].doc_id = workers[p].doc_id
        /\ document_store[workers[p].doc_id] = workers[q].text

\* C13: after requests that ran at the same time have completed, a template file
\* or a document entry they wrote holds in full the value one of them wrote,
\* never a mixture of two values or a part of one.
C13_NoCorruptionByConcurrentWriters ==
    Completed =>
        \A p \in Workers :
            /\ workers[p].job = "save" => FileIsOneWrite(p)
            /\ workers[p].job = "put" => EntryIsOneWrite(p)

\* ------------------------------------------------------------------------
\* Properties of the order of analyze_document's steps
\* ------------------------------------------------------------------------

\* the extracted text of the request is stored under its id
Stored(store, r) == r.doc_id \in DOMAIN store /\ store[r.doc_id] = r.text

C14_Step ==
    \* the LLM is called with the text already stored
    /\ (pc = "idle" /\ pc' = "analyze_llm") =>
        /\ Stored(document_store', req')
        /\ llm_request'.text = req'.text
        /\ llm_calls' = 1
    \* the store is written by nothing else
    /\ document_store' # document_store => (pc = "idle" /\ pc' = "analyze_llm")
    \* once called, the LLM is not called again and the store is not touched
    /\ pc = "analyze_llm" =>
        /\ pc' = "responded"
        /\ llm_calls' = 1
        /\ document_store' = document_store
        /\ Stored(document_store', req')
    \* a 500 returns no id
    /\ (pc = "analyze_llm" /\ response'.status = 500) =>
        /\ response'.keys = {"error"}
        /\ response'.documentId = ""
    /\ llm_calls' <= 1
    \* a failure of the checks before the write leaves the store unchanged
    /\ (pc = "idle" /\ pc' = "responded" /\ req'.handler = "analyze") =>
        /\ document_store' = document_store
        /\ llm_calls' = 0
    \* an ask with a stored id finds the document
    /\ (pc = "idle" /\ req'.handler = "ask" /\ req'.doc_id \in DOMAIN document_store) =>
        /\ pc' = "ask_llm"
        /\ llm_request'.text = document_store[req'.doc_id]

\* C14: analyze_document stores the extracted text before it calls the LLM and
\* never takes it back: after a failed call or a reply that cannot be repaired
\* (500, no documentId) the text is still stored and an ask with its id finds it;
\* only the failures before the write leave the store unchanged; the LLM is
\* called at most once per request.
C14_StoredBeforeLlmNoRollback == [][C14_Step]_vars

\* the reply could not be repaired, the request ended with 500, and the text of
\* the upload is in the store
C14_Witness ==
    /\ pc = "responded"
    /\ req.handler = "analyze"
    /\ fixed.outcome = "invalid"
    /\ response.status = 500
    /\ "documentId" \notin response.keys
    /\ Stored(document_store, req)
    /\ llm_calls = 1

\* ------------------------------------------------------------------------
\* Properties of the template files
\* ------------------------------------------------------------------------

TemplatesDir == <<<<"c", "o", "n", "f", "i", "g">>, <<"t", "e", "m", "p", "l", "a", "t", "e", "s">>>>

\* the path names a file directly inside config/templates
DirectlyInTemplatesDir(path) ==
    LET walked == ResolvePath(path) IN
    /\ Len(walked) = Len(TemplatesDir) + 1
    /\ SubSeq(walked, 1, Len(TemplatesDir)) = TemplatesDir

\* C15: every file save_template writes is config/templates/<id>.json, a file
\* directly inside config/templates, and the id create_custom_template computes
\* holds no path separator and no '..' component.
C15_FilesStayInTemplatesDir ==
    /\ \A f \in DOMAIN template_files : DirectlyInTemplatesDir(f)
    /\ (tpc = "returned" /\ result.success) =>
        /\ result.path = template_path(result.template_id)
        /\ ~Contains(result.template_id, "/")
        /\ \A i \in 1..Len(SplitPath(result.template_id)) :
                SplitPath(result.template_id)[i] # <<".", ".">>

====
